---------------------------- MODULE Spec2Model ----------------------------
(***************************************************************************)
(* A model of wallace (src/wallace.go): the amortization schedule          *)
(* generator main(), the lump-sum ledger getLumpSums() and the numeric     *)
(* helpers getMonthlyPayment() and truncateToTwoDecimals().                *)
(*                                                                         *)
(* Money is counted in units of 1/SubCent cent, so that amounts which are  *)
(* not whole cents exist in the model.  big.Float values are modelled as   *)
(* exact fractions <<n, d>> (d > 0), with <<1, 0>> and <<-1, 0>> for +Inf  *)
(* and -Inf and <<0, 0>> for the ErrNaN panic of math/big; the 53-bit      *)
(* rounding of big.Float is not modelled.                                  *)
(***************************************************************************)
EXTENDS Integers, Sequences, FiniteSets, TLC

VARIABLES
    pc,              \* position of main(): start, date, ledger, loop, output, done, fatal, panic
    loanAmount,      \* flag --loanAmount, in units
    interest,        \* flag --interest, annual percent
    years,           \* flag --years
    startDateArg,    \* flag --startDate, a date text
    lumpSumsFile,    \* the records of the lump sums file not yet read
    output,          \* flag --output: csv, markdown or html
    monthlyInterest, \* fraction
    paymentCount,
    monthlyPayment,  \* fraction
    startDate,
    lumpSums,        \* the ledger: a set of LumpSumPayment, at most one per PaymentPeriod
    n,               \* loop counter of main()
    balance,         \* in units
    csvBuilder,      \* the rows written to the csv buffer, the header included
    stdout,          \* what was printed on the standard output, one element per print
    failure          \* how the run ended in log.Fatalf or a panic: the message and the error

vars == <<pc, loanAmount, interest, years, startDateArg, lumpSumsFile, output,
          monthlyInterest, paymentCount, monthlyPayment, startDate, lumpSums,
          n, balance, csvBuilder, stdout, failure>>

---------------------------------------------------------------------------
(* Bounds of the model *)

\* units per cent: input amounts have a resolution of 1/SubCent cent
SubCent == 2
\* small loan amounts 0..MaxLoan, in units
MaxLoan == 4
\* larger loan amounts: 100, 200, ... MaxHundreds * 100 cents
MaxHundreds == 5
\* at most MaxRecords records in the lump sums file
MaxRecords == 2

Cents(c) == c * SubCent

---------------------------------------------------------------------------
(* big.Float as exact fractions *)

Abs(x) == IF x < 0 THEN -x ELSE x
Sgn(x) == IF x < 0 THEN -1 ELSE IF x > 0 THEN 1 ELSE 0

RECURSIVE GCD(_, _)
GCD(a, b) == IF b = 0 THEN a ELSE GCD(b, a % b)

\* the fraction num/den in lowest terms; den = 0 gives an infinity or NaN
Norm(num, den) ==
    IF den = 0 THEN <<Sgn(num), 0>>
    ELSE LET g == GCD(Abs(num), Abs(den))
         IN  <<Sgn(den) * (num \div g), Abs(den) \div g>>

NaN == <<0, 0>>
PosInf == <<1, 0>>
Int2F(i) == <<i, 1>>
IsNaN(x) == x = NaN
IsInf(x) == x[2] = 0 /\ x[1] # 0
IsFinite(x) == x[2] # 0

\* (*big.Float).Add: Inf + -Inf panics with ErrNaN
FAdd(x, y) ==
    IF IsNaN(x) \/ IsNaN(y) THEN NaN
    ELSE IF IsInf(x) /\ IsInf(y) THEN (IF x = y THEN x ELSE NaN)
    ELSE Norm(x[1] * y[2] + y[1] * x[2], x[2] * y[2])

FNeg(x) == <<-x[1], x[2]>>

\* (*big.Float).Sub
FSub(x, y) == FAdd(x, FNeg(y))

\* (*big.Float).Mul: 0 * Inf panics with ErrNaN
FMul(x, y) == Norm(x[1] * y[1], x[2] * y[2])

\* (*big.Float).Quo: 0/0 and Inf/Inf panic with ErrNaN, x/0 is an infinity
FQuo(x, y) ==
    IF IsNaN(x) \/ IsNaN(y) THEN NaN
    ELSE LET s == IF y[1] < 0 THEN -1 ELSE 1
         IN  IF IsInf(x) /\ y[1] = 0 THEN x
             ELSE Norm(s * x[1] * y[2], x[2] * Abs(y[1]))

\* (*big.Float).Cmp on finite values: -1, 0 or 1
FCmp(x, y) == Sgn(x[1] * y[2] - y[1] * x[2])

RECURSIVE PowInt(_, _)
PowInt(z, k) == IF k = 0 THEN Int2F(1) ELSE FMul(z, PowInt(z, k - 1))

\* bigfloat.Pow(z, w) for an integer w: panics on a negative base,
\* Pow(z, 0) = 1, Pow(z, -w) = 1 / Pow(z, w)
Pow(z, w) ==
    IF IsNaN(z) \/ z[1] < 0 THEN NaN
    ELSE IF w = 0 THEN Int2F(1)
    ELSE IF w < 0 THEN FQuo(Int2F(1), PowInt(z, -w))
    ELSE PowInt(z, w)

---------------------------------------------------------------------------
(* Numeric helpers of wallace.go *)

\* math.Round of num/den (den > 0): to the nearest integer, halves away from zero
RoundHalfAway(num, den) ==
    LET q == Abs(num) \div den
        r == Abs(num) % den
        m == IF 2 * r >= den THEN q + 1 ELSE q
    IN  Sgn(num) * m

\* num/den (den > 0) with its fractional part dropped
TruncTowardZero(num, den) == Sgn(num) * (Abs(num) \div den)

\* truncateToTwoDecimals: math.Round(x * 100) / 100, so the nearest whole cent.
\* x is a fraction in units; the result is a whole number of units.
truncateToTwoDecimals(x) == Cents(RoundHalfAway(x[1], x[2] * SubCent))

\* bigFloatMin
bigFloatMin(a, b) == IF FCmp(a, b) < 0 THEN a ELSE b

\* getInterest
getInterest(principal, monthlyRate) == FMul(principal, monthlyRate)

\* getPaymentCount
getPaymentCount(term) == term * 12

\* getMonthlyPayment: monthlyRate / (1 - (1 + monthlyRate)^(-paymentCount)) * loanAmount
getMonthlyPayment(monthlyRate, loan, count) ==
    LET powA == FAdd(Int2F(1), monthlyRate)
        pow == Pow(powA, -count)
        divisor == FSub(Int2F(1), pow)
        monthlyPay == FQuo(monthlyRate, divisor)
    IN  FMul(monthlyPay, loan)

---------------------------------------------------------------------------
(* time.Time: calendar dates at 00:00 UTC, as [year, month, day] *)

IsLeap(y) == (y % 4 = 0 /\ y % 100 # 0) \/ y % 400 = 0

DaysIn(y, m) ==
    IF m = 2 THEN (IF IsLeap(y) THEN 29 ELSE 28)
    ELSE IF m \in {4, 6, 9, 11} THEN 30 ELSE 31

\* time.Date(y, m, d, 0, 0, 0, 0, time.UTC): a month outside 1..12 and a day past
\* the end of the month are normalised (February 31 2019 is March 3 2019)
Date(y, m, d) ==
    LET yy == y + ((m - 1) \div 12)
        mm == ((m - 1) % 12) + 1
        len == DaysIn(yy, mm)
    IN  IF d <= len THEN [year |-> yy, month |-> mm, day |-> d]
        ELSE IF mm = 12 THEN [year |-> yy + 1, month |-> 1, day |-> d - len]
        ELSE [year |-> yy, month |-> mm + 1, day |-> d - len]

\* (time.Time).AddDate(0, months, 0)
AddDate(t, months) == Date(t.year, t.month + months, t.day)

\* the days of the years 1 .. y-1 of the proleptic Gregorian calendar
DaysBeforeYear(y) ==
    365 * (y - 1) + ((y - 1) \div 4) - ((y - 1) \div 100) + ((y - 1) \div 400)

RECURSIVE DaysBeforeMonth(_, _)
DaysBeforeMonth(y, m) ==
    IF m <= 1 THEN 0 ELSE DaysBeforeMonth(y, m - 1) + DaysIn(y, m - 1)

\* the day number of a date, counted from January 1 of year 1
DayNumber(t) == DaysBeforeYear(t.year) + DaysBeforeMonth(t.year, t.month) + t.day - 1

\* int(a.Sub(b).Hours()) / 24: Go's integer division truncates toward zero
DaysBetween(a, b) == TruncTowardZero((DayNumber(a) - DayNumber(b)) * 24, 24)

ZeroTime == [year |-> 1, month |-> 1, day |-> 1]

\* A date text: ok is whether the text has the layout "January 2 2006"
DateText(y, m, d) == [ok |-> TRUE, year |-> y, month |-> m, day |-> d]
BadText == [ok |-> FALSE, year |-> 0, month |-> 0, day |-> 0]

\* getMonthYearDate: time.ParseInLocation(paymentTimeFormat, val, time.UTC), which
\* also refuses a day that the month does not have
getMonthYearDate(val) ==
    IF val.ok /\ val.month \in 1..12 /\ val.day \in 1..DaysIn(val.year, val.month)
    THEN [err |-> FALSE, time |-> [year |-> val.year, month |-> val.month, day |-> val.day]]
    ELSE [err |-> TRUE, time |-> ZeroTime]

\* A decimal text of an amount, in units: ok is whether big.ParseFloat accepts it
AmountText(u) == [ok |-> TRUE, val |-> u]
BadAmount == [ok |-> FALSE, val |-> 0]

\* big.ParseFloat(text, 10, 53, big.ToNearestEven)
ParseFloat(text) == [err |-> ~text.ok, val |-> text.val]

---------------------------------------------------------------------------
(* The lump-sum ledger: getLumpSums *)

NilFloat == [set |-> FALSE, val |-> 0]
NilString == [set |-> FALSE, val |-> ""]
NilTime == [set |-> FALSE, val |-> ZeroTime]
Ptr(v) == [set |-> TRUE, val |-> v]

\* A record of the lump sums file: nf is len(record); the fields past nf are unused
Record2(date, amount) ==
    [nf |-> 2, date |-> date, amount |-> amount, original |-> BadAmount,
     currency |-> "", rate |-> BadAmount, rateDate |-> BadText]
Record6(date, amount, original, cur, rate, rateDate) ==
    [nf |-> 6, date |-> date, amount |-> amount, original |-> original,
     currency |-> cur, rate |-> rate, rateDate |-> rateDate]

NoError == [kind |-> "", line |-> 0]
ErrorAt(kind, line) == [kind |-> kind, line |-> line]

\* The PaymentPeriod of a payment date (wallace.go 249-254): a payment made before
\* the contractual day of its month belongs to the period of the month before
PeriodOf(paymentDate, start) ==
    IF paymentDate.day < start.day
    THEN LET paymentMonth == AddDate(paymentDate, -1)
             paymentDay == Date(paymentMonth.year, paymentMonth.month, start.day)
         IN  [year |-> paymentDay.year, month |-> paymentDay.month, day |-> paymentDay.day]
    ELSE [year |-> paymentDate.year, month |-> paymentDate.month, day |-> start.day]

\* _, ok := lumpSums[pp]
HasPeriod(ledger, pp) == \E l \in ledger : l.period = pp

\* a ledger construction that never finds a period occupied: the later record of a
\* period would replace the earlier one
DuplicatePeriodIgnored(ledger, pp) == FALSE

\* if _, ok := lumpSums[pp]; ok (wallace.go 256): the period is taken already
DuplicatePeriod(ledger, pp) == HasPeriod(ledger, pp)

\* lumpSums[pp] = LumpSumPayment{...}: a map holds one value per key
Store(ledger, payment) == {l \in ledger : l.period # payment.period} \cup {payment}

\* lumpSums[pp], for a pp the ledger has
Lookup(ledger, pp) == CHOOSE l \in ledger : l.period = pp

\* The optional fields of a record (wallace.go 260-288): the first error, or none
OptionalError(record, line) ==
    IF record.nf >= 3 /\ ParseFloat(record.original).err
    THEN ErrorAt("originalPaymentValue", line)
    ELSE IF record.nf >= 5 /\ ParseFloat(record.rate).err
    THEN ErrorAt("exchangeRate", line)
    ELSE IF record.nf >= 6 /\ getMonthYearDate(record.rateDate).err
    THEN ErrorAt("exchangeRateDate", line)
    ELSE NoError

\* a ledger that takes the original payment value, when the record has one, for
\* the amount of the payment
NewLumpSumPaymentOriginal(record, pp, paymentDate, payment) ==
    [period |-> pp, paymentDate |-> paymentDate,
     amount |-> IF record.nf >= 3 THEN ParseFloat(record.original).val ELSE payment,
     originalPaymentValue |->
        IF record.nf >= 3 THEN Ptr(ParseFloat(record.original).val) ELSE NilFloat,
     currency |-> IF record.nf >= 4 THEN Ptr(record.currency) ELSE NilString,
     exchangeRate |->
        IF record.nf >= 5 THEN Ptr(ParseFloat(record.rate).val) ELSE NilFloat,
     exchangeRateDate |->
        IF record.nf >= 6 THEN Ptr(getMonthYearDate(record.rateDate).time) ELSE NilTime]

\* The LumpSumPayment built from a record (wallace.go 290)
NewLumpSumPayment(record, pp, paymentDate, payment) ==
    [period |-> pp, paymentDate |-> paymentDate, amount |-> payment,
     originalPaymentValue |->
        IF record.nf >= 3 THEN Ptr(ParseFloat(record.original).val) ELSE NilFloat,
     currency |-> IF record.nf >= 4 THEN Ptr(record.currency) ELSE NilString,
     exchangeRate |->
        IF record.nf >= 5 THEN Ptr(ParseFloat(record.rate).val) ELSE NilFloat,
     exchangeRateDate |->
        IF record.nf >= 6 THEN Ptr(getMonthYearDate(record.rateDate).time) ELSE NilTime]

\* a reader that takes every record that does not parse for a header
HeaderLineAnywhere(line) == TRUE

\* if line == 0 (wallace.go 231, 241): only the first record may be a header
HeaderLine(line) == line = 0

\* One pass of the loop over the records (wallace.go 224-291), from record number
\* line (counted from 0) with the ledger built so far
RECURSIVE ReadRecords(_, _, _, _)
ReadRecords(records, line, ledger, start) ==
    IF line >= Len(records) THEN [lumpSums |-> ledger, err |-> NoError]
    ELSE
      LET record == records[line + 1]
          date == getMonthYearDate(record.date)
          payment == ParseFloat(record.amount)
          pp == PeriodOf(date.time, start)
          failed(kind) == [lumpSums |-> {}, err |-> ErrorAt(kind, line)]
      IN  IF record.nf < 2 THEN failed("Incorrect format")
          ELSE IF date.err THEN
               (IF HeaderLine(line) THEN ReadRecords(records, line + 1, ledger, start)
                ELSE failed("payment time"))
          ELSE IF payment.err THEN
               (IF HeaderLine(line) THEN ReadRecords(records, line + 1, ledger, start)
                ELSE failed("payment value"))
          ELSE IF DuplicatePeriod(ledger, pp) THEN failed("only one lump sum per period")
          ELSE IF OptionalError(record, line) # NoError
               THEN [lumpSums |-> {}, err |-> OptionalError(record, line)]
          ELSE ReadRecords(records, line + 1,
                           Store(ledger, NewLumpSumPayment(record, pp, date.time, payment.val)),
                           start)

\* csv.Reader.ReadAll: every record must have as many fields as the first
FieldCountError(records) ==
    \E i \in 1..Len(records) : records[i].nf # records[1].nf

\* getLumpSums: the ledger, or nil and an error
getLumpSums(records, start) ==
    IF FieldCountError(records)
    THEN [lumpSums |-> {}, err |-> ErrorAt("wrong number of fields", 0)]
    ELSE ReadRecords(records, 0, {}, start)

---------------------------------------------------------------------------
(* The schedule generator: main *)

\* failure: nothing failed; log.Fatalf or a panic with a message and an error
NoFailure == [msg |-> "", err |-> NoError]
Failed(msg, err) == [msg |-> msg, err |-> err]

\* A row of the csv buffer.  period is the loop counter that wrote the row (it is
\* not a column of the csv); the amounts are the values handed to the formatter.
Row(period, date, type, monthInterest, monthPrincipal, monthPayment, bal) ==
    [period |-> period, month |-> date, type |-> type, interest |-> monthInterest,
     principal |-> monthPrincipal, payment |-> monthPayment, balance |-> bal]

HeaderRow == Row(-1, ZeroTime, "header", 0, 0, Int2F(0), 0)

\* The regular payment of period k on a balance (wallace.go 106-119): the interest,
\* the principal, the payment and the new balance
RegularPayment(bal, k, monthlyRate, payment) ==
    LET opening == truncateToTwoDecimals(Int2F(bal))
        monthInterest == truncateToTwoDecimals(getInterest(Int2F(opening), monthlyRate))
        actualMonthPrincipal ==
            bigFloatMin(FSub(payment, Int2F(monthInterest)), Int2F(opening))
        monthPrincipal == truncateToTwoDecimals(actualMonthPrincipal)
    IN  IF k > 0
        THEN [interest |-> monthInterest,
              principal |-> monthPrincipal,
              payment |-> bigFloatMin(payment, Int2F(monthInterest + monthPrincipal)),
              balance |-> truncateToTwoDecimals(Int2F(opening - monthPrincipal))]
        ELSE [interest |-> 0, principal |-> 0, payment |-> Int2F(0), balance |-> opening]

\* daysSinceLastPayment > 0 (wallace.go 126-127): the lump sum is refused
Misaligned(payment, periodDate) == DaysBetween(payment.paymentDate, periodDate) > 0

\* a lump sum capped at the remaining balance, which the code does not do
ApplyLumpSumCapped(bal, payment) ==
    IF payment.amount > bal THEN 0 ELSE bal - payment.amount

\* balance.Sub(balance, &payment.amount) (wallace.go 131)
ApplyLumpSum(bal, payment) == bal - payment.amount

\* a lump-sum row that shows the lump sum as payment and nothing as principal
LumpSumRowNoPrincipal(k, payment, bal) ==
    Row(k, payment.paymentDate, "lump sum", 0, 0, Int2F(payment.amount), bal)

\* The lump-sum row (wallace.go 132)
LumpSumRow(k, payment, bal) ==
    Row(k, payment.paymentDate, "lump sum", 0, payment.amount, Int2F(payment.amount), bal)

\* PaymentPeriod{month: periodDate.Month(), year: periodDate.Year(), day: periodDate.Day()}
PeriodKey(periodDate) ==
    [year |-> periodDate.year, month |-> periodDate.month, day |-> periodDate.day]

\* a loop that leaves out the last contractual period
LoopConditionExclusive(k, count, bal) == k < count /\ bal > 0

\* a loop that goes on to period paymentCount whatever the balance
LoopConditionAnyBalance(k, count, bal) == k <= count

\* for n := 0; n <= paymentCount && balance.Cmp(bigZero) > 0; n++
LoopCondition(k, count, bal) == k <= count /\ bal > 0

\* What was printed on the standard output by one print
Printed(format, rows, payments) == [format |-> format, rows |-> rows, payments |-> payments]

\* a writer on the standard output itself: every row is printed as it is written
WriteThrough(out, rows) == Append(out, Printed("csv", rows, <<>>))

\* w := csv.NewWriter(&csvBuilder) (wallace.go 102): the standard output after
\* w.Write of some rows, which go to the buffer and not to the standard output
WriteToStdout(out, rows) == out

\* wallace.go 78-85: the monthly rate, the number of payments, the monthly payment
ComputeTerms ==
    /\ pc = "start"
    /\ LET annualInterest == FQuo(Int2F(interest), Int2F(100))
           rate == FQuo(annualInterest, Int2F(12))
           count == getPaymentCount(years)
           payment == getMonthlyPayment(rate, Int2F(loanAmount), count)
       IN  /\ monthlyInterest' = rate
           /\ paymentCount' = count
           /\ monthlyPayment' = payment
           /\ pc' = IF IsNaN(payment) THEN "panic" ELSE "date"
           /\ failure' = IF IsNaN(payment) THEN Failed("panic: ErrNaN", NoError) ELSE failure
    /\ UNCHANGED <<loanAmount, interest, years, startDateArg, lumpSumsFile, output, startDate,
                   lumpSums, n, balance, csvBuilder, stdout>>

\* wallace.go 86-89
ParseStartDate ==
    /\ pc = "date"
    /\ LET parsed == getMonthYearDate(startDateArg)
       IN  /\ startDate' = parsed.time
           /\ pc' = IF parsed.err THEN "fatal" ELSE "ledger"
           /\ failure' = IF parsed.err THEN Failed("Invalid start date", NoError) ELSE failure
    /\ UNCHANGED <<loanAmount, interest, years, startDateArg, lumpSumsFile, output,
                   monthlyInterest, paymentCount, monthlyPayment, lumpSums, n, balance,
                   csvBuilder, stdout>>

\* wallace.go 94-103: the ledger, the opening balance and the header of the csv
ReadLumpSums ==
    /\ pc = "ledger"
    /\ LET got == getLumpSums(lumpSumsFile, startDate)
       IN  /\ lumpSums' = got.lumpSums
           /\ IF got.err # NoError
              THEN /\ pc' = "fatal"
                   /\ failure' = Failed("Error reading lump sum files", got.err)
                   /\ UNCHANGED <<balance, csvBuilder, n, stdout>>
              ELSE /\ pc' = "loop"
                   /\ balance' = loanAmount
                   /\ csvBuilder' = <<HeaderRow>>
                   /\ stdout' = WriteToStdout(stdout, <<HeaderRow>>)
                   /\ n' = 0
                   /\ UNCHANGED failure
    /\ UNCHANGED <<loanAmount, interest, years, startDateArg, lumpSumsFile, output,
                   monthlyInterest, paymentCount, monthlyPayment, startDate>>

\* The body of the loop for period k on a balance (wallace.go 106-133): the rows
\* written, the new balance and whether the lump sum of the period was refused
LoopStep(k, bal, ledger) ==
    LET regular == RegularPayment(bal, k, monthlyInterest, monthlyPayment)
        periodDate == AddDate(startDate, k)
        loanRow == Row(k, periodDate, "loan", regular.interest, regular.principal,
                       regular.payment, regular.balance)
        pp == PeriodKey(periodDate)
    IN  IF HasPeriod(ledger, pp)
        THEN LET payment == Lookup(ledger, pp)
                 after == ApplyLumpSum(regular.balance, payment)
             IN  IF Misaligned(payment, periodDate)
                 THEN [fatal |-> TRUE, balance |-> regular.balance, rows |-> <<loanRow>>]
                 ELSE [fatal |-> FALSE, balance |-> after,
                       rows |-> <<loanRow, LumpSumRow(k, payment, after)>>]
        ELSE [fatal |-> FALSE, balance |-> regular.balance, rows |-> <<loanRow>>]

\* wallace.go 105-134: one iteration of the loop
LoopBody ==
    /\ pc = "loop"
    /\ LoopCondition(n, paymentCount, balance)
    /\ LET step == LoopStep(n, balance, lumpSums)
       IN  /\ balance' = step.balance
           /\ csvBuilder' = csvBuilder \o step.rows
           /\ stdout' = WriteToStdout(stdout, step.rows)
           /\ n' = IF step.fatal THEN n ELSE n + 1
           /\ pc' = IF step.fatal THEN "fatal" ELSE pc
           /\ failure' =
                IF step.fatal
                THEN Failed("lump sum payments are only supported when made on the same date",
                            NoError)
                ELSE failure
    /\ UNCHANGED <<loanAmount, interest, years, startDateArg, lumpSumsFile, output,
                   monthlyInterest, paymentCount, monthlyPayment, startDate, lumpSums>>

\* wallace.go 105, 135: the loop condition fails and the csv writer is flushed
LoopExit ==
    /\ pc = "loop"
    /\ ~LoopCondition(n, paymentCount, balance)
    /\ pc' = "output"
    /\ UNCHANGED <<loanAmount, interest, years, startDateArg, lumpSumsFile, output,
                   monthlyInterest, paymentCount, monthlyPayment, startDate, lumpSums,
                   n, balance, csvBuilder, stdout, failure>>

\* csvToMarkdown (wallace.go 187-204): the csv buffer read back and rendered as a
\* table, its first record as header; csv.Reader.ReadAll refuses records that have
\* not the fields of the first
csvToMarkdown(rawCsv) ==
    IF \E i \in 1..Len(rawCsv) : DOMAIN rawCsv[i] # DOMAIN rawCsv[1]
    THEN [err |-> TRUE, header |-> <<>>, body |-> <<>>]
    ELSE [err |-> FALSE, header |-> SubSeq(rawCsv, 1, 1), body |-> Tail(rawCsv)]

\* sort.Sort(ByPaymentDate(ls)) (wallace.go 151-155): the payments of the ledger by
\* payment date (two payments of a ledger never have the same date)
RECURSIVE ByPaymentDate(_)
ByPaymentDate(ledger) ==
    IF ledger = {} THEN <<>>
    ELSE LET first == CHOOSE l \in ledger :
                        \A m \in ledger : DayNumber(l.paymentDate) <= DayNumber(m.paymentDate)
         IN  <<first>> \o ByPaymentDate(ledger \ {first})

\* wallace.go 138-177: the buffer is printed as csv, or rendered as markdown with
\* the list of the lump sums and printed as markdown or as html
Output ==
    /\ pc = "output"
    /\ LET rendered == csvToMarkdown(csvBuilder)
       IN  IF output = "csv"
           THEN /\ stdout' = Append(stdout, Printed("csv", csvBuilder, <<>>))
                /\ pc' = "done"
                /\ UNCHANGED failure
           ELSE IF rendered.err
           THEN /\ pc' = "fatal"
                /\ failure' = Failed("Error rendering markdown", NoError)
                /\ UNCHANGED stdout
           ELSE /\ stdout' = Append(stdout, Printed(output, rendered.header \o rendered.body,
                                                    ByPaymentDate(lumpSums)))
                /\ pc' = "done"
                /\ UNCHANGED failure
    /\ UNCHANGED <<loanAmount, interest, years, startDateArg, lumpSumsFile, output,
                   monthlyInterest, paymentCount, monthlyPayment, startDate, lumpSums,
                   n, balance, csvBuilder>>

Next ==
    \/ ComputeTerms
    \/ ParseStartDate
    \/ ReadLumpSums
    \/ LoopBody
    \/ LoopExit
    \/ Output

---------------------------------------------------------------------------
(* The inputs of the model *)

\* --loanAmount: a negative amount, the small amounts and the larger ones
LoanAmounts ==
    {Cents(-1)} \cup (0..MaxLoan) \cup {Cents(100 * k) : k \in 1..MaxHundreds}

\* --interest, in percent a year: a monthly rate of -1/2, 0, 1/2 and 1
Interests == {-600, 0, 600, 1200}

\* --years
Years == {-1, 0, 1}

\* --output
Outputs == {"csv", "markdown", "html"}

\* --startDate: a contractual day that every month has, one that few have,
\* and a text that is no date
StartDates == {DateText(2019, 1, 15), DateText(2019, 1, 31), BadText}

\* The records of the lump sums files
HeaderRecord == Record2(BadText, BadAmount)
LumpSumRecords ==
    { Record2(DateText(2019, 2, 15), AmountText(Cents(50))),
      Record2(DateText(2019, 2, 15), AmountText(Cents(1000))),
      Record2(DateText(2019, 2, 15), AmountText(Cents(-1))),
      Record2(DateText(2019, 3, 10), AmountText(Cents(50))),
      Record2(DateText(2019, 3, 15), AmountText(1)),
      Record2(DateText(2019, 3, 30), AmountText(Cents(50))),
      Record2(DateText(2019, 4, 15), BadAmount),
      HeaderRecord }

\* Records of payments made in another currency, with the original value, the
\* currency, the exchange rate and its date (one of them with an original value
\* that is no number), and a record of two fields, dated before the start dates,
\* to go with them
ExchangeRecords ==
    { Record6(DateText(2019, 2, 15), AmountText(Cents(50)), AmountText(Cents(40)), "USD",
              AmountText(3), DateText(2019, 2, 14)),
      Record6(DateText(2019, 2, 15), AmountText(Cents(50)), AmountText(Cents(1000)), "EUR",
              AmountText(1), DateText(2019, 2, 15)),
      Record6(DateText(2019, 3, 15), AmountText(Cents(100)), AmountText(Cents(90)), "USD",
              AmountText(2), DateText(2019, 3, 15)),
      Record6(DateText(2019, 3, 15), AmountText(Cents(50)), BadAmount, "USD",
              AmountText(3), DateText(2019, 3, 15)),
      Record2(DateText(2019, 1, 10), AmountText(Cents(50))) }

\* the sequences of at most len elements of S
SeqsUpTo(S, len) == UNION {[1..k -> S] : k \in 0..len}

Files == SeqsUpTo(LumpSumRecords, MaxRecords) \cup SeqsUpTo(ExchangeRecords, MaxRecords)

\* what main() has not computed yet
Blank ==
    /\ pc = "start"
    /\ monthlyInterest = Int2F(0)
    /\ paymentCount = 0
    /\ monthlyPayment = Int2F(0)
    /\ startDate = ZeroTime
    /\ lumpSums = {}
    /\ n = 0
    /\ balance = 0
    /\ csvBuilder = <<>>
    /\ stdout = <<>>
    /\ failure = NoFailure

Init ==
    /\ loanAmount \in LoanAmounts
    /\ interest \in Interests
    /\ years \in Years
    /\ startDateArg \in StartDates
    /\ lumpSumsFile \in Files
    /\ output \in Outputs
    /\ Blank

Spec == Init /\ [][Next]_vars

\* The runs of Spec in which every amount given, the loan and the lump sums, is a
\* whole number of cents and the loan is none or at least a dollar
WholeCentLoans == {l \in LoanAmounts : l % SubCent = 0 /\ (l <= 0 \/ l >= Cents(100))}
WholeCentFiles ==
    {f \in Files : \A i \in 1..Len(f) : f[i].amount.val % SubCent = 0}

InitWholeCents ==
    /\ loanAmount \in WholeCentLoans
    /\ interest \in Interests
    /\ years \in Years
    /\ startDateArg \in StartDates
    /\ lumpSumsFile \in WholeCentFiles
    /\ output \in Outputs
    /\ Blank

SpecWholeCents == InitWholeCents /\ [][Next]_vars

\* The runs of SpecWholeCents on a loan of at most a dollar and a file of at most
\* one record, under fairness: main() is one sequential program, it goes on as
\* long as it has a step to take
InitSmall ==
    /\ loanAmount \in {l \in WholeCentLoans : l <= Cents(100)}
    /\ interest \in Interests
    /\ years \in Years
    /\ startDateArg \in StartDates
    /\ lumpSumsFile \in {f \in WholeCentFiles : Len(f) <= 1}
    /\ output \in Outputs
    /\ Blank

\* main() has ended: normally, in log.Fatalf or in a panic
Terminated == pc \in {"done", "fatal", "panic"}

\* WF_vars(Next) written out.  Every action changes pc or n, and one action is
\* enabled at every position but the three where main() has ended, so that
\* <<Next>>_vars is enabled exactly when ~Terminated.
Fairness == []<>Terminated \/ []<><<Next>>_vars

FairSpec == InitSmall /\ [][Next]_vars /\ Fairness

---------------------------------------------------------------------------
(* What the claims speak of *)

\* ReadLumpSums has run: the ledger was built or refused
LedgerRead ==
    \/ pc \in {"loop", "output", "done"}
    \/ pc = "fatal" /\ failure.msg # "Invalid start date"

\* the loop has started
InLoop == pc \in {"loop", "output", "done"}

\* the loop has ended without a failure
LoopEnded == pc \in {"output", "done"}

\* the positions of the schedule rows in the csv buffer (position 1 is the header)
ScheduleRows == {i \in 1..Len(csvBuilder) : csvBuilder[i].type # "header"}

\* the positions of the rows that period k wrote
RowsOfPeriod(k) == {i \in ScheduleRows : csvBuilder[i].period = k}

\* the payment date of period k
PeriodDate(k) == AddDate(startDate, k)

WholeCents(u) == u % SubCent = 0

\* the largest whole number of cents that is <= x, for a fraction x >= 0 in units
FloorToCents(x) == Cents(x[1] \div (x[2] * SubCent))

\* The balance after period k of the run on the same terms with an empty ledger
\* (wallace.go 105-119 without the lump sums); the last balance once that run ended
RECURSIVE BalanceWithoutLumpSums(_)
BalanceWithoutLumpSums(k) ==
    IF k = 0 THEN RegularPayment(loanAmount, 0, monthlyInterest, monthlyPayment).balance
    ELSE LET before == BalanceWithoutLumpSums(k - 1)
         IN  IF LoopCondition(k, paymentCount, before)
             THEN RegularPayment(before, k, monthlyInterest, monthlyPayment).balance
             ELSE before

---------------------------------------------------------------------------
(* The claims *)

\* C1: with an empty ledger, a principal > 0, a monthly rate > 0 and paymentCount > 0,
\* the loop writes the regular row of period paymentCount and its balance is 0.
C1_PaidOffAtLastPeriod ==
    (LoopEnded /\ lumpSums = {} /\ loanAmount > 0 /\ monthlyInterest[1] > 0
        /\ paymentCount > 0)
    => \E i \in ScheduleRows :
          /\ csvBuilder[i].type = "loan"
          /\ csvBuilder[i].period = paymentCount
          /\ csvBuilder[i].balance = 0

\* C2: for valid loan terms and any ledger, no schedule row, regular or lump sum,
\* has a balance below 0.
C2_NoNegativeBalance ==
    (loanAmount > 0 /\ interest > 0 /\ years > 0)
    => \A i \in ScheduleRows : csvBuilder[i].balance >= 0

\* C3: a period whose ledger entry is not dated on the period's payment date, later
\* or earlier, ends the run and its lump sum is never subtracted: every period the
\* loop went through had no entry or an entry dated on its payment date, and every
\* lump-sum row is dated on the payment date of its period.
C3_MisalignedAborts ==
    /\ \A k \in 0..(n - 1) :
          HasPeriod(lumpSums, PeriodKey(PeriodDate(k)))
          => Lookup(lumpSums, PeriodKey(PeriodDate(k))).paymentDate = PeriodDate(k)
    /\ \A i \in ScheduleRows :
          csvBuilder[i].type = "lump sum"
          => csvBuilder[i].month = PeriodDate(csvBuilder[i].period)

\* a record whose date and amount parse
ParsedRecord(record) ==
    /\ record.nf >= 2
    /\ ~getMonthYearDate(record.date).err
    /\ ~ParseFloat(record.amount).err

\* records i < j of the file both parse and have the same PaymentPeriod
SamePeriod(i, j) ==
    /\ i < j
    /\ ParsedRecord(lumpSumsFile[i])
    /\ ParsedRecord(lumpSumsFile[j])
    /\ PeriodOf(getMonthYearDate(lumpSumsFile[i].date).time, startDate)
         = PeriodOf(getMonthYearDate(lumpSumsFile[j].date).time, startDate)

\* C4: when two parsed records of the file have the same PaymentPeriod, whatever
\* their order and their dates, getLumpSums returns no ledger and the run ends with
\* the error of reading the lump sums; the error is the duplicate error, at the
\* second record's line, when the csv reader took the file (its records have the
\* same number of fields) and the records before were accepted.
C4_DuplicateRejected ==
    LedgerRead =>
    \A i, j \in 1..Len(lumpSumsFile) :
        SamePeriod(i, j) =>
            /\ pc = "fatal"
            /\ failure.msg = "Error reading lump sum files"
            /\ lumpSums = {}
            /\ ( /\ ~FieldCountError(lumpSumsFile)
                 /\ getLumpSums(SubSeq(lumpSumsFile, 1, j - 1), startDate).err = NoError )
               => failure.err = ErrorAt("only one lump sum per period", j - 1)

\* C4's case: the run ended on a duplicate made of a record dated on the contractual
\* day and a record dated before the contractual day of the following month
C4_Witness ==
    /\ pc = "fatal"
    /\ failure.err.kind = "only one lump sum per period"
    /\ \E i, j \in 1..Len(lumpSumsFile) :
          /\ SamePeriod(i, j)
          /\ lumpSumsFile[i].date.day = startDate.day
          /\ lumpSumsFile[j].date.day < startDate.day
          /\ lumpSumsFile[j].date.month = lumpSumsFile[i].date.month + 1

\* C5: a period the loop went through whose ledger entry is dated on the period's
\* payment date wrote two rows, the loan row and then the lump-sum row, which has no
\* interest, the lump sum as principal and payment, and the loan row's balance less
\* the lump sum as balance; a period without ledger entry wrote one row, a loan row.
C5_LumpSumRows ==
    \A k \in 0..(n - 1) :
        LET key == PeriodKey(PeriodDate(k))
            rows == RowsOfPeriod(k)
        IN  IF ~HasPeriod(lumpSums, key)
            THEN /\ Cardinality(rows) = 1
                 /\ \A i \in rows : csvBuilder[i].type = "loan"
            ELSE LET l == Lookup(lumpSums, key)
                 IN  l.paymentDate = PeriodDate(k) =>
                     \E i \in rows :
                        /\ rows = {i, i + 1}
                        /\ csvBuilder[i].type = "loan"
                        /\ csvBuilder[i + 1].type = "lump sum"
                        /\ csvBuilder[i + 1].interest = 0
                        /\ csvBuilder[i + 1].principal = l.amount
                        /\ csvBuilder[i + 1].payment = Int2F(l.amount)
                        /\ csvBuilder[i + 1].balance = csvBuilder[i].balance - l.amount

\* C5's case: the loop went through a period with an entry dated on its payment
\* date, and through a period without entry
C5_Witness ==
    /\ LoopEnded
    /\ \E k \in 0..(n - 1) :
          /\ HasPeriod(lumpSums, PeriodKey(PeriodDate(k)))
          /\ Lookup(lumpSums, PeriodKey(PeriodDate(k))).paymentDate = PeriodDate(k)
          /\ Cardinality(RowsOfPeriod(k)) = 2
    /\ \E k \in 0..(n - 1) : ~HasPeriod(lumpSums, PeriodKey(PeriodDate(k)))

\* C6: the balance of every lump-sum row is strictly below the balance that the run
\* on the same terms with an empty ledger has at that period, for every amount that
\* getLumpSums accepts (checked here on terms that are all positive).
C6_LumpSumLowersBalance ==
    (loanAmount > 0 /\ interest > 0 /\ years > 0)
    => \A i \in ScheduleRows :
          csvBuilder[i].type = "lump sum"
          => csvBuilder[i].balance < BalanceWithoutLumpSums(csvBuilder[i].period)

\* C7: with an empty ledger and a monthly rate >= 0 the balance never increases
\* from one schedule row to the next.
C7_BalanceNeverIncreases ==
    (InLoop /\ lumpSums = {} /\ monthlyInterest[1] >= 0)
    => \A i \in ScheduleRows :
          (i + 1) \in ScheduleRows => csvBuilder[i + 1].balance <= csvBuilder[i].balance

\* C8: for a rate of 0, a principal > 0 and paymentCount > 0, getMonthlyPayment
\* does not fail and returns principal / paymentCount.
C8_ZeroRatePayment ==
    (pc # "start" /\ interest = 0 /\ loanAmount > 0 /\ years > 0)
    => /\ pc # "panic"
       /\ monthlyPayment = Norm(loanAmount, paymentCount)

\* C9: with a principal <= 0, an interest rate <= 0 or a term <= 0 the run fails
\* before the loop starts and no schedule row is written.
C9_InvalidInputRejected ==
    (loanAmount <= 0 \/ interest <= 0 \/ years <= 0)
    => /\ ~InLoop
       /\ ScheduleRows = {}

\* C10: the cent adjustment drops the digits past the second decimal and never
\* rounds up: the interest of a period n >= 1 that starts on a balance of whole
\* cents is the largest whole number of cents <= balance * monthlyRate, and its
\* principal the largest whole number of cents <= min(payment - interest, balance).
C10_TruncatesTowardZero ==
    \A i \in ScheduleRows :
        ( /\ (i - 1) \in ScheduleRows
          /\ csvBuilder[i].type = "loan"
          /\ csvBuilder[i].period >= 1
          /\ monthlyInterest[1] >= 0
          /\ csvBuilder[i - 1].balance > 0
          /\ WholeCents(csvBuilder[i - 1].balance) )
        => LET opening == Int2F(csvBuilder[i - 1].balance)
               due == getInterest(opening, monthlyInterest)
               part == bigFloatMin(FSub(monthlyPayment, Int2F(csvBuilder[i].interest)),
                                   opening)
           IN  /\ csvBuilder[i].interest = FloorToCents(due)
               /\ part[1] >= 0 => csvBuilder[i].principal = FloorToCents(part)


\* C11: the balance is a whole number of cents after every step that changes it,
\* the lump-sum subtraction included: the balance of every schedule row, loan row
\* or lump-sum row, is a multiple of 0.01, whatever the precision of the lump sums
\* (checked here on a loan of whole cents and on terms that are all positive).
C11_BalanceInWholeCents ==
    (WholeCents(loanAmount) /\ loanAmount > 0 /\ interest > 0 /\ years > 0)
    => \A i \in ScheduleRows : WholeCents(csvBuilder[i].balance)


\* the run was aborted: log.Fatalf or a panic
Aborted == pc \in {"fatal", "panic"}

\* C12: a run is all or nothing: a run that aborts, on the start date, on the
\* ledger, on a misaligned lump sum at any period or in the renderer, has printed
\* nothing; what is printed is printed once, after the loop has ended without
\* error, and holds the whole schedule.
C12_AllOrNothing ==
    /\ Aborted => stdout = <<>>
    /\ stdout # <<>> =>
          /\ pc = "done"
          /\ failure = NoFailure
          /\ ~LoopCondition(n, paymentCount, balance)
          /\ Len(stdout) = 1
          /\ stdout[1].rows = csvBuilder

\* C12's case: a misaligned lump sum stopped the run at a period after the first,
\* when rows of earlier periods were written already, and nothing was printed
C12_Witness ==
    /\ pc = "fatal"
    /\ failure.msg = "lump sum payments are only supported when made on the same date"
    /\ n >= 2
    /\ Cardinality(ScheduleRows) >= 3
    /\ stdout = <<>>


\* a record of at least two fields whose payment date or payment amount does not parse
Unparsable(record) ==
    /\ record.nf >= 2
    /\ getMonthYearDate(record.date).err \/ ParseFloat(record.amount).err

\* the error of a record that does not parse: the date is read before the amount
ParseErrorKind(record) ==
    IF getMonthYearDate(record.date).err THEN "payment time" ELSE "payment value"

\* the records after the first all parse, optional fields included, and no two of
\* them have the same PaymentPeriod
RestAccepted ==
    /\ ~FieldCountError(lumpSumsFile)
    /\ \A i \in 2..Len(lumpSumsFile) :
          /\ ParsedRecord(lumpSumsFile[i])
          /\ OptionalError(lumpSumsFile[i], i - 1) = NoError
          /\ \A j \in 2..Len(lumpSumsFile) : ~SamePeriod(i, j)

\* getLumpSums returned an error
LedgerRefused == pc = "fatal" /\ failure.msg = "Error reading lump sum files"

\* C13: a record whose payment date or amount does not parse is skipped, without
\* error and without ledger entry, if and only if it is the first record: then the
\* run never fails on line 0, and the ledger has one entry for each other record
\* when these are accepted; at a later position the run ends with the error of
\* reading the lump sums and no ledger, and the error names the record's line
\* (counted from 0, as the code counts) when the csv reader took the file and the
\* records before it were accepted.
C13_HeaderOnlyFirst ==
    LedgerRead =>
    \A j \in 1..Len(lumpSumsFile) :
        Unparsable(lumpSumsFile[j]) =>
            IF j = 1
            THEN /\ failure.err.kind \notin {"payment time", "payment value"}
                    \/ failure.err.line # 0
                 /\ RestAccepted =>
                       /\ ~LedgerRefused
                       /\ Cardinality(lumpSums) = Len(lumpSumsFile) - 1
            ELSE /\ pc = "fatal"
                 /\ failure.msg = "Error reading lump sum files"
                 /\ lumpSums = {}
                 /\ ( /\ ~FieldCountError(lumpSumsFile)
                      /\ getLumpSums(SubSeq(lumpSumsFile, 1, j - 1), startDate).err = NoError )
                    => failure.err = ErrorAt(ParseErrorKind(lumpSumsFile[j]), j - 1)

\* C13's case: the first record did not parse and was skipped, and the second
\* record, whose amount does not parse, ended the run with an error at line 1
C13_Witness ==
    /\ Len(lumpSumsFile) = 2
    /\ Unparsable(lumpSumsFile[1])
    /\ ~getMonthYearDate(lumpSumsFile[2].date).err
    /\ ParseFloat(lumpSumsFile[2].amount).err
    /\ pc = "fatal"
    /\ lumpSums = {}
    /\ failure.err = ErrorAt("payment value", 1)


\* the calendar month before the month of a date
MonthBefore(t) ==
    IF t.month = 1 THEN [year |-> t.year - 1, month |-> 12]
    ELSE [year |-> t.year, month |-> t.month - 1]

\* C14: every ledger entry is keyed by its normalized period: with c the day of
\* the start date, a payment whose day of the month is below c has the key (year
\* and month of the calendar month before the payment's, day c), any other payment
\* the key (the payment's own year and month, day c).
C14_NormalizedPeriod ==
    \A l \in lumpSums :
        LET c == startDate.day
            before == MonthBefore(l.paymentDate)
        IN  IF l.paymentDate.day < c
            THEN l.period = [year |-> before.year, month |-> before.month, day |-> c]
            ELSE l.period = [year |-> l.paymentDate.year, month |-> l.paymentDate.month,
                             day |-> c]


\* the positions of the loan rows in the csv buffer
LoanRows == {i \in ScheduleRows : csvBuilder[i].type = "loan"}

\* the loan rows are those of the periods 0, 1, ..., k in that order, one row per
\* period, with k <= paymentCount, and each of them was written for a period that
\* started on a balance > 0; the loop ends only on n > paymentCount or balance <= 0
OneLoanRowPerPeriod ==
    /\ \A i \in LoanRows :
          /\ csvBuilder[i].period = Cardinality({j \in LoanRows : j < i})
          /\ csvBuilder[i].period <= paymentCount
          /\ IF csvBuilder[i].period = 0
             THEN loanAmount > 0
             ELSE (i - 1) \in ScheduleRows /\ csvBuilder[i - 1].balance > 0
    /\ LoopEnded => (n > paymentCount \/ balance <= 0)

\* C15: schedule generation always terminates, and it writes the loan rows of the
\* periods 0, 1, ..., k in that order, one per period, with k <= paymentCount,
\* stopping at the first period n with n > paymentCount or a balance <= 0 at its
\* start, so that no loan row is written for a period that starts on a balance <= 0.
C15_LoopTerminates ==
    /\ []OneLoanRowPerPeriod
    /\ (pc = "loop") ~> (pc \in {"output", "fatal"})

\* C15's case: the loop ended before period paymentCount, after at least two
\* periods, because the balance was no longer above 0
C15_Witness ==
    /\ LoopEnded
    /\ n >= 2
    /\ n <= paymentCount
    /\ balance <= 0
    /\ Cardinality(LoanRows) = n


\* The rows that the loop writes from period k on a balance with a ledger
\* (wallace.go 105-134), up to the end of the loop or to a refused lump sum, and
\* whether a lump sum was refused
RECURSIVE Generate(_, _, _)
Generate(k, bal, ledger) ==
    IF ~LoopCondition(k, paymentCount, bal) THEN [rows |-> <<>>, fatal |-> FALSE]
    ELSE LET step == LoopStep(k, bal, ledger)
             rest == Generate(k + 1, step.balance, ledger)
         IN  IF step.fatal THEN [rows |-> step.rows, fatal |-> TRUE]
             ELSE [rows |-> step.rows \o rest.rows, fatal |-> rest.fatal]

\* the csv buffer of the run on the terms of this run with a ledger
ScheduleOf(ledger) == <<HeaderRow>> \o Generate(0, loanAmount, ledger).rows

\* schedule generation is over: the loop has ended, or a lump sum was refused
GenerationOver ==
    \/ LoopEnded
    \/ pc = "fatal" /\ ~LedgerRefused /\ failure.msg # "Invalid start date"

\* the file with the optional fields of every record taken away
PlainFile ==
    [i \in 1..Len(lumpSumsFile) |->
        Record2(lumpSumsFile[i].date, lumpSumsFile[i].amount)]

\* C16: the optional fields of the records never influence the schedule: the
\* rows of a run whose ledger was built are the rows of the run on the same terms
\* with the file whose records have the same payment dates and amounts and no
\* optional field, so that files which differ only in the presence or the values
\* of well-formed optional fields give the same rows.
C16_OptionalFieldsIgnored ==
    GenerationOver =>
        LET plain == getLumpSums(PlainFile, startDate)
        IN  /\ plain.err = NoError
            /\ csvBuilder = ScheduleOf(lumpSums)
            /\ csvBuilder = ScheduleOf(plain.lumpSums)

\* C16's case: the loop has ended after a lump sum of a record with optional
\* fields, whose original value is not the amount, was applied
C16_Witness ==
    /\ LoopEnded
    /\ \E l \in lumpSums :
          /\ l.currency.set
          /\ l.originalPaymentValue.val # l.amount
          /\ \E i \in ScheduleRows :
                /\ csvBuilder[i].type = "lump sum"
                /\ csvBuilder[i].month = l.paymentDate
                /\ csvBuilder[i].principal = l.amount


\* the sum of the principal column of the rows 1..i of the csv buffer
RECURSIVE PrincipalPaid(_)
PrincipalPaid(i) ==
    IF i = 0 THEN 0 ELSE PrincipalPaid(i - 1) + csvBuilder[i].principal

\* the loan and every amount of the file are whole cents
AllWholeCents ==
    /\ WholeCents(loanAmount)
    /\ \A i \in 1..Len(lumpSumsFile) : WholeCents(lumpSumsFile[i].amount.val)

\* C17: principal is conserved: when the loan and the lump sums are whole cents,
\* after every row the loan principal is the row's balance plus the sum of the
\* principal column of the rows written so far, loan rows and lump-sum rows.
C17_PrincipalConserved ==
    AllWholeCents =>
        \A i \in ScheduleRows :
            loanAmount = csvBuilder[i].balance + PrincipalPaid(i)

\* C17's case: a run on whole cents wrote a loan row that pays principal, a
\* lump-sum row after it and a loan row after that one
C17_Witness ==
    /\ AllWholeCents
    /\ LoopEnded
    /\ \E i \in ScheduleRows :
          /\ csvBuilder[i].type = "loan"
          /\ csvBuilder[i].principal > 0
          /\ (i + 2) \in ScheduleRows
          /\ csvBuilder[i + 1].type = "lump sum"
          /\ csvBuilder[i + 1].principal > 0
          /\ csvBuilder[i + 2].type = "loan"


\* row i is the last row of its period
LastRowOfPeriod(i) ==
    (i + 1) \in ScheduleRows => csvBuilder[i + 1].period # csvBuilder[i].period

\* a ledger entry of a period that the generator never visits: a period before the
\* start date, after period paymentCount, or after the period that ended on a
\* balance <= 0
NeverVisited(l) ==
    \/ DayNumber(l.period) < DayNumber(startDate)
    \/ DayNumber(l.period) > DayNumber(PeriodDate(paymentCount))
    \/ \E i \in ScheduleRows :
          /\ LastRowOfPeriod(i)
          /\ csvBuilder[i].balance <= 0
          /\ DayNumber(l.period) > DayNumber(PeriodDate(csvBuilder[i].period))

\* C18: a ledger entry of a period that the generator never visits, aligned or
\* not, has no row, changes no balance and raises no error: the rows, the balances
\* and the end of the run are those of the run with the ledger without the entry.
C18_UnvisitedEntryIgnored ==
    GenerationOver =>
        \A l \in lumpSums :
            NeverVisited(l) =>
                /\ \A i \in ScheduleRows :
                      csvBuilder[i].type = "lump sum" => csvBuilder[i].month # l.paymentDate
                /\ csvBuilder = ScheduleOf(lumpSums \ {l})
                /\ (pc = "fatal") = Generate(0, loanAmount, lumpSums \ {l}).fatal
                /\ pc = "fatal" => Lookup(lumpSums, PeriodKey(PeriodDate(n))) # l

\* C18's case: the run ended normally with a ledger entry that was applied and an
\* entry, dated after the date of its period, of a period that was never visited
C18_Witness ==
    /\ pc = "done"
    /\ \E l \in lumpSums :
          /\ NeverVisited(l)
          /\ DayNumber(l.paymentDate) > DayNumber(l.period)
    /\ \E i \in ScheduleRows : csvBuilder[i].type = "lump sum"

=============================================================================
